---- MODULE Spec2Model ----
(***************************************************************************)
(* A model of the PLINK .bed -> HDF5 converter (convert_bed_to_h5.py):     *)
(* the constructor, the discovery of the filesets, the memory probe, the   *)
(* mode selection, the chunk-size calculation, the standard and the        *)
(* chunked writers, the batch loops and the verifier.                      *)
(*                                                                         *)
(* Numbers.  Python integers are unbounded and byte counts of realistic    *)
(* matrices exceed 2^31, so byte counts and variant counts are held as     *)
(* unbounded naturals: little-endian sequences of limbs in base 10000      *)
(* (<<>> is 0).  Memory quantities the code holds as float GB are held     *)
(* here as the exact byte count GB * 1024**3; on the inputs drawn below    *)
(* the code's float arithmetic and this exact arithmetic give the same     *)
(* comparisons and the same int(.) truncations.                            *)
(***************************************************************************)
EXTENDS Integers, Sequences, FiniteSets, TLC

\* ------------------------------------------------------------------------
\* Unbounded naturals (Python int arithmetic)
\* ------------------------------------------------------------------------
Base == 100 * 100

RECURSIVE BN(_)
BN(n) == IF n = 0 THEN <<>> ELSE <<n % Base>> \o BN(n \div Base)

RECURSIVE BNNorm(_)
BNNorm(a) ==
    IF a = <<>> THEN <<>>
    ELSE IF a[Len(a)] = 0 THEN BNNorm(SubSeq(a, 1, Len(a) - 1))
    ELSE a

BNLimb(a, k) == IF k <= Len(a) THEN a[k] ELSE 0

RECURSIVE BNAddFrom(_, _, _, _)
BNAddFrom(a, b, k, carry) ==
    IF k > Len(a) /\ k > Len(b)
    THEN (IF carry = 0 THEN <<>> ELSE <<carry>>)
    ELSE LET s == BNLimb(a, k) + BNLimb(b, k) + carry
         IN  <<s % Base>> \o BNAddFrom(a, b, k + 1, s \div Base)

BNAdd(a, b) == BNAddFrom(a, b, 1, 0)

\* a - b for a >= b
RECURSIVE BNSubFrom(_, _, _, _)
BNSubFrom(a, b, k, borrow) ==
    IF k > Len(a) THEN <<>>
    ELSE LET d == BNLimb(a, k) - BNLimb(b, k) - borrow
         IN  IF d < 0
             THEN <<d + Base>> \o BNSubFrom(a, b, k + 1, 1)
             ELSE <<d>> \o BNSubFrom(a, b, k + 1, 0)

BNSub(a, b) == BNNorm(BNSubFrom(a, b, 1, 0))

\* a * m for a small natural m (m <= Base)
RECURSIVE BNMulSmallFrom(_, _, _, _)
BNMulSmallFrom(a, m, k, carry) ==
    IF k > Len(a)
    THEN BN(carry)
    ELSE LET p == a[k] * m + carry
         IN  <<p % Base>> \o BNMulSmallFrom(a, m, k + 1, p \div Base)

BNMulSmall(a, m) == IF m = 0 THEN <<>> ELSE BNMulSmallFrom(a, m, 1, 0)

BNShift(a) == IF a = <<>> THEN <<>> ELSE <<0>> \o a

RECURSIVE BNMul(_, _)
BNMul(a, b) ==
    IF b = <<>> THEN <<>>
    ELSE BNAdd(BNMulSmall(a, b[1]), BNShift(BNMul(a, Tail(b))))

\* comparison from the most significant limb down
RECURSIVE BNLessFrom(_, _, _)
BNLessFrom(a, b, k) ==
    IF k = 0 THEN FALSE
    ELSE IF a[k] # b[k] THEN a[k] < b[k]
    ELSE BNLessFrom(a, b, k - 1)

BNLess(a, b) ==
    IF Len(a) # Len(b) THEN Len(a) < Len(b) ELSE BNLessFrom(a, b, Len(a))

BNLeq(a, b) == ~BNLess(b, a)

BNMin(a, b) == IF BNLess(b, a) THEN b ELSE a

BNMax(a, b) == IF BNLess(a, b) THEN b ELSE a

\* the largest digit d in lo..hi with d * b <= r (bisection); the midpoint is
\* computed once
RECURSIVE BNDigit(_, _, _, _)
BNDigit(r, b, lo, hi) ==
    IF lo = hi THEN lo
    ELSE CHOOSE d \in {IF BNLeq(BNMulSmall(b, mid), r)
                       THEN BNDigit(r, b, mid, hi)
                       ELSE BNDigit(r, b, lo, mid - 1) :
                          mid \in {(lo + hi + 1) \div 2}} : TRUE

\* one step of the long division: r is the remainder so far with the next limb
\* joined to it, q the quotient so far; the digit is computed once
BNDivStep(r, b, q) ==
    CHOOSE qr \in {<< BNNorm(<<d>> \o q), BNSub(r, BNMulSmall(b, d)) >> :
                      d \in {BNDigit(r, b, 0, Base - 1)}} : TRUE

\* schoolbook long division, most significant limb of a first:
\* <<quotient, remainder>>; the result for the higher limbs is computed once
RECURSIVE BNDivMod(_, _)
BNDivMod(a, b) ==
    IF a = <<>> THEN << <<>>, <<>> >>
    ELSE CHOOSE qr \in {BNDivStep(BNNorm(<<a[1]>> \o hi[2]), b, hi[1]) :
                           hi \in {BNDivMod(Tail(a), b)}} : TRUE

\* floor(a / b), b > 0
BNDiv(a, b) == BNDivMod(a, b)[1]

RECURSIVE BNToNat(_)
BNToNat(a) == IF a = <<>> THEN 0 ELSE a[1] + Base * BNToNat(Tail(a))

\* ------------------------------------------------------------------------
\* Values
\* ------------------------------------------------------------------------
\* Optional[...]: None is <<>>, a present value x is <<x>>
None == <<>>

Some(x) == <<x>>

Min(a, b) == IF a <= b THEN a ELSE b

\* 1024**3 bytes, the factor between a GB figure and its byte count
GiB == BN(1073741824)

\* 1024**2 bytes: a SLURM figure in MB is value / 1024.0 GB
MiB == BN(1048576)

GB(n) == BNMul(BN(n), GiB)

\* float32: 4 bytes per genotype
BytesPerGenotype == 4

LargeVariantThreshold == 500000

MaxChunkGB == 10

\* safety_factor = 0.7, held as the ratio SafetyNum / SafetyDen
SafetyNum == 7

SafetyDen == 10

\* the fallback threshold of 1.0 GB when no memory limit can be determined
FallbackGB == 1

\* available_gb * 0.5, the share of available memory targeted when chunking
HalfDen == 2

\* ------------------------------------------------------------------------
\* calculate_chunk_size
\* ------------------------------------------------------------------------
Returned(v) == [ok |-> TRUE, value |-> v, error |-> ""]

Raised(e) == [ok |-> FALSE, value |-> 0, error |-> e]

bytes_per_sample(n_variants) == BNMulSmall(n_variants, BytesPerGenotype)

\* max(1, int(memory_bytes / bytes_per_sample))
RowsWithin(memory_bytes, n_variants) ==
    BNMax(BN(1), BNDiv(memory_bytes, bytes_per_sample(n_variants)))

\* calculate_chunk_size without the 10 GB ceiling for large datasets
calculate_chunk_size_uncapped(cs, mu, n_samples, n_variants) ==
    IF cs # None
    THEN Returned(Min(cs[1], n_samples))
    ELSE IF bytes_per_sample(n_variants) = <<>>
    THEN Raised("ZeroDivisionError")
    ELSE Returned(BNToNat(BNMin(RowsWithin(mu, n_variants), BN(n_samples))))

\* calculate_chunk_size rounding the rows per target up instead of down
calculate_chunk_size_rounded_up(cs, mu, n_samples, n_variants) ==
    IF cs # None
    THEN Returned(Min(cs[1], n_samples))
    ELSE IF bytes_per_sample(n_variants) = <<>>
    THEN Raised("ZeroDivisionError")
    ELSE LET up(memory) == BNAdd(RowsWithin(memory, n_variants), BN(1))
             target == BNMin(up(mu), BN(n_samples))
             capped == IF BNLess(BN(LargeVariantThreshold), n_variants)
                       THEN BNMin(target, up(GB(MaxChunkGB)))
                       ELSE target
         IN  Returned(BNToNat(capped))

\* calculate_chunk_size with the ceiling applied from 500,000 variants on, not
\* above them
calculate_chunk_size_cap_from_threshold(cs, mu, n_samples, n_variants) ==
    IF cs # None
    THEN Returned(Min(cs[1], n_samples))
    ELSE IF bytes_per_sample(n_variants) = <<>>
    THEN Raised("ZeroDivisionError")
    ELSE LET target  == BNMin(RowsWithin(mu, n_variants), BN(n_samples))
             capped  == IF BNLeq(BN(LargeVariantThreshold), n_variants)
                        THEN BNMin(target, RowsWithin(GB(MaxChunkGB), n_variants))
                        ELSE target
         IN  Returned(BNToNat(capped))

\* self.chunk_size is cs, self.memory_usage (in bytes) is mu
\* the explicit chunk size put under the 10 GiB cap as well
calculate_chunk_size_explicit_capped(cs, mu, n_samples, n_variants) ==
    IF cs # None
    THEN IF BNLess(BN(LargeVariantThreshold), n_variants)
         THEN Returned(Min(Min(cs[1], n_samples),
                           BNToNat(RowsWithin(GB(MaxChunkGB), n_variants))))
         ELSE Returned(Min(cs[1], n_samples))
    ELSE IF bytes_per_sample(n_variants) = <<>>
    THEN Raised("ZeroDivisionError")
    ELSE LET target  == BNMin(RowsWithin(mu, n_variants), BN(n_samples))
             capped  == IF BNLess(BN(LargeVariantThreshold), n_variants)
                        THEN BNMin(target, RowsWithin(GB(MaxChunkGB), n_variants))
                        ELSE target
         IN  Returned(BNToNat(capped))

calculate_chunk_size(cs, mu, n_samples, n_variants) ==
    IF cs # None
    THEN Returned(Min(cs[1], n_samples))
    ELSE IF bytes_per_sample(n_variants) = <<>>
    THEN Raised("ZeroDivisionError")
    ELSE LET target  == BNMin(RowsWithin(mu, n_variants), BN(n_samples))
             capped  == IF BNLess(BN(LargeVariantThreshold), n_variants)
                        THEN BNMin(target, RowsWithin(GB(MaxChunkGB), n_variants))
                        ELSE target
         IN  Returned(BNToNat(capped))

\* ------------------------------------------------------------------------
\* The memory probe and the mode decision
\* ------------------------------------------------------------------------
\* an os.environ entry: absent, or a string that int() parses to val, or one
\* on which int() raises ValueError
Unset == [present |-> FALSE, parses |-> FALSE, val |-> 0]

EnvInt(v) == [present |-> TRUE, parses |-> TRUE, val |-> v]

EnvBad == [present |-> TRUE, parses |-> FALSE, val |-> 0]

MBToBytes(mb) == BNMul(BN(mb), MiB)

\* get_slurm_memory_limit looking at the per-CPU allocation first
get_slurm_memory_limit_cpu_first(env) ==
    IF /\ env.SLURM_MEM_PER_CPU.present
       /\ env.SLURM_CPUS_PER_TASK.present
       /\ env.SLURM_MEM_PER_CPU.parses
       /\ env.SLURM_CPUS_PER_TASK.parses
    THEN Some(MBToBytes(env.SLURM_MEM_PER_CPU.val * env.SLURM_CPUS_PER_TASK.val))
    ELSE IF env.SLURM_MEM_PER_NODE.present /\ env.SLURM_MEM_PER_NODE.parses
    THEN Some(MBToBytes(env.SLURM_MEM_PER_NODE.val))
    ELSE None

\* an unparseable per-node value ending the look-up
get_slurm_memory_limit_bad_node_ends(env) ==
    IF env.SLURM_MEM_PER_NODE.present
    THEN IF env.SLURM_MEM_PER_NODE.parses
         THEN Some(MBToBytes(env.SLURM_MEM_PER_NODE.val))
         ELSE None
    ELSE IF /\ env.SLURM_MEM_PER_CPU.present
            /\ env.SLURM_CPUS_PER_TASK.present
            /\ env.SLURM_MEM_PER_CPU.parses
            /\ env.SLURM_CPUS_PER_TASK.parses
    THEN Some(MBToBytes(env.SLURM_MEM_PER_CPU.val * env.SLURM_CPUS_PER_TASK.val))
    ELSE None

\* Optional byte count (the code returns GB = MB / 1024.0)
get_slurm_memory_limit(env) ==
    IF env.SLURM_MEM_PER_NODE.present /\ env.SLURM_MEM_PER_NODE.parses
    THEN Some(MBToBytes(env.SLURM_MEM_PER_NODE.val))
    ELSE IF /\ env.SLURM_MEM_PER_CPU.present
            /\ env.SLURM_CPUS_PER_TASK.present
            /\ env.SLURM_MEM_PER_CPU.parses
            /\ env.SLURM_CPUS_PER_TASK.parses
    THEN Some(MBToBytes(env.SLURM_MEM_PER_CPU.val * env.SLURM_CPUS_PER_TASK.val))
    ELSE None

required_memory_bytes(n_samples, n_variants) ==
    BNMulSmall(BNMul(BN(n_samples), n_variants), BytesPerGenotype)

\* the comparison without the safety factor
ExceedsAvailable(required, available) == BNLess(available, required)

\* required_memory_gb > available_memory_gb * safety_factor
ExceedsSafe(required, available) ==
    BNLess(BNMulSmall(available, SafetyNum), BNMulSmall(required, SafetyDen))

\* check_memory_requirements with the fallback chunking from 1.0 GB on, not
\* above it
check_memory_requirements_from_threshold(env, psutil_ok, vm, n_samples, n_variants) ==
    LET required == required_memory_bytes(n_samples, n_variants)
        slurm    == get_slurm_memory_limit(env)
        fallback == [needs_chunking |-> BNLeq(GB(FallbackGB), required),
                     required |-> required, available |-> <<>>,
                     source |-> "indeterminate"]
    IN  IF slurm # None
        THEN [needs_chunking |-> ExceedsSafe(required, slurm[1]),
              required |-> required, available |-> slurm[1], source |-> "slurm"]
        ELSE IF psutil_ok
        THEN IF vm.raises
             THEN fallback
             ELSE [needs_chunking |-> ExceedsSafe(required, vm.available),
                   required |-> required, available |-> vm.available,
                   source |-> "os"]
        ELSE fallback

\* vm is what psutil.virtual_memory() does: raise, or report `available` bytes.
\* The result is (needs_chunking, required, available) with the source of the
\* budget; available is 0 when the budget is indeterminate.
check_memory_requirements(env, psutil_ok, vm, n_samples, n_variants) ==
    LET required == required_memory_bytes(n_samples, n_variants)
        slurm    == get_slurm_memory_limit(env)
        fallback == [needs_chunking |-> BNLess(GB(FallbackGB), required),
                     required |-> required, available |-> <<>>,
                     source |-> "indeterminate"]
    IN  IF slurm # None
        THEN [needs_chunking |-> ExceedsSafe(required, slurm[1]),
              required |-> required, available |-> slurm[1], source |-> "slurm"]
        ELSE IF psutil_ok
        THEN IF vm.raises
             THEN fallback
             ELSE [needs_chunking |-> ExceedsSafe(required, vm.available),
                   required |-> required, available |-> vm.available,
                   source |-> "os"]
        ELSE fallback

\* the target lowered to all of the available memory, not to half of it
adjusted_memory_usage_whole(mu, check) ==
    IF check.needs_chunking /\ check.available # <<>>
    THEN BNMin(mu, check.available)
    ELSE mu

\* min(self.memory_usage, available_gb * 0.5) when chunking with a known budget
adjusted_memory_usage(mu, check) ==
    IF check.needs_chunking /\ check.available # <<>>
    THEN BNMin(mu, BNDiv(check.available, BN(HalfDen)))
    ELSE mu

\* ------------------------------------------------------------------------
\* HDF5 files on disk and verify_h5_file
\* ------------------------------------------------------------------------
\* A row of a dataset holds the token of the source row copied into it
\* (source row r, counted from 1, has token r), Fill where nothing was
\* written since the dataset was created, Stale in a file of an earlier run.
Fill == 0

Stale == -1

NoFile == [kind |-> "absent", keys |-> {}, shape |-> <<>>, rows |-> <<>>]

NotHdf5 == [kind |-> "garbage", keys |-> {}, shape |-> <<>>, rows |-> <<>>]

EmptyH5 == [kind |-> "hdf5", keys |-> {}, shape |-> <<>>, rows |-> <<>>]

OtherH5 == [kind |-> "hdf5", keys |-> {"genotypes"}, shape |-> <<>>, rows |-> <<>>]

\* a dataset created without rows, to be resized as chunks arrive
DatasetUnshaped(n_samples, n_variants, rows) ==
    [kind |-> "hdf5", keys |-> {"genotype_data"},
     shape |-> <<0, n_variants>>, rows |-> rows]

\* genotype_data with shape (n_samples, n_variants) and the given rows
Dataset(n_samples, n_variants, rows) ==
    [kind |-> "hdf5", keys |-> {"genotype_data"},
     shape |-> <<n_samples, n_variants>>, rows |-> rows]

StaleH5 == Dataset(1, BN(1), <<Stale>>)

required_datasets == <<"genotype_data">>

\* verify_h5_file passing every file that opens
verify_h5_file_opens(store) ==
    IF store.kind # "hdf5"
    THEN [valid |-> FALSE, level |-> "error", msg |-> "Error verifying", key |-> ""]
    ELSE [valid |-> TRUE, level |-> "info",
          msg |-> "H5 file verification passed", key |-> ""]

verify_h5_file(store) ==
    IF store.kind # "hdf5"
    THEN [valid |-> FALSE, level |-> "error", msg |-> "Error verifying", key |-> ""]
    ELSE LET missing == {k \in 1..Len(required_datasets) :
                            required_datasets[k] \notin store.keys}
         IN  IF missing # {}
             THEN [valid |-> FALSE, level |-> "error", msg |-> "Missing dataset",
                   key |-> required_datasets[CHOOSE k \in missing :
                                                \A m \in missing : k <= m]]
             ELSE [valid |-> TRUE, level |-> "info",
                   msg |-> "H5 file verification passed", key |-> ""]

\* the matrix the reader returns for rows [start, stop) of a source of n rows
ReadRows(start, stop) == [r \in 1..(stop - start) |-> start + r]

\* the chunk written at the top of the dataset instead of at its own offset
WriteRowsAtTop(rows, start, stop, chunk) ==
    [r \in 1..Len(rows) |->
        IF r <= stop - start THEN chunk[r] ELSE rows[r]]

\* dset[start:stop, :] = chunk
WriteRows(rows, start, stop, chunk) ==
    [r \in 1..Len(rows) |->
        IF start < r /\ r <= stop THEN chunk[r - start] ELSE rows[r]]

\* ------------------------------------------------------------------------
\* The input directory and find_bed_files
\* ------------------------------------------------------------------------
\* A file of the tree is [dir, stem, suffix]: the directory it lies in,
\* relative to the input directory, and its name as characters, split at the
\* last dot as Path.stem and Path.suffix split it.
BedSuffix == <<".", "b", "e", "d">>

BimSuffix == <<".", "b", "i", "m">>

FamSuffix == <<".", "f", "a", "m">>

\* Path.name
FileName(file) == file.stem \o file.suffix

\* str.lower(), one character
LowerChar(c) ==
    CASE c = "A" -> "a"
      [] c = "B" -> "b"
      [] c = "D" -> "d"
      [] c = "E" -> "e"
      [] c = "M" -> "m"
      [] c = "O" -> "o"
      [] c = "P" -> "p"
      [] c = "R" -> "r"
      [] c = "T" -> "t"
      [] c = "Y" -> "y"
      [] OTHER   -> c

\* str.lower()
Lower(name) == [k \in 1..Len(name) |-> LowerChar(name[k])]

\* word in name
Contains(name, word) ==
    \E k \in 0..(Len(name) - Len(word)) :
        SubSeq(name, k + 1, k + Len(word)) = word

Temporary == <<"t", "e", "m", "p", "o", "r", "a", "r", "y">>

\* Path.with_suffix
with_suffix(file, suffix) == [file EXCEPT !.suffix = suffix]

\* find_bed_files looking for 'temporary' in the name as it is spelled
find_bed_files_case_sensitive(files) ==
    {[dir |-> bed_file.dir, stem |-> bed_file.stem] :
        bed_file \in {file \in files :
            /\ file.suffix = BedSuffix
            /\ ~Contains(FileName(file), Temporary)
            /\ with_suffix(file, BimSuffix) \in files
            /\ with_suffix(file, FamSuffix) \in files}}

\* the (bed_file, prefix) pairs find_bed_files collects, in the order rglob
\* happens to yield them: here as a set
find_bed_files(files) ==
    {[dir |-> bed_file.dir, stem |-> bed_file.stem] :
        bed_file \in {file \in files :
            /\ file.suffix = BedSuffix
            /\ ~Contains(Lower(FileName(file)), Temporary)
            /\ with_suffix(file, BimSuffix) \in files
            /\ with_suffix(file, FamSuffix) \in files}}

\* the three files of a complete PLINK fileset
Fileset(dir, stem) ==
    {[dir |-> dir, stem |-> stem, suffix |-> x] :
        x \in {BedSuffix, BimSuffix, FamSuffix}}

\* ------------------------------------------------------------------------
\* State
\* ------------------------------------------------------------------------
VARIABLES
    chunk_size,          \* self.chunk_size: None or an integer
    memory_usage,        \* self.memory_usage, as bytes (GB * 1024**3)
    environ,             \* the SLURM_* entries of os.environ
    psutil_available,    \* PSUTIL_AVAILABLE
    virtual_memory,      \* what psutil.virtual_memory() does when called
    input_dir,           \* the input directory: whether it exists, its files
    output_dir,          \* the output directory: whether given, whether it exists
    found,               \* what find_bed_files() returned: (bed_file, prefix)
    raised,              \* the exception that left the constructor, if any
    bed_files,           \* the filesets found, with their dimensions
    batch_mode,          \* which of convert_all / _chunked / _auto runs
    disk,                \* the .h5 file of each fileset
    idx,                 \* filesets the batch loop has finished
    converted_files,     \* the batch loop's list of created files
    failed_conversions,  \* the batch loop's list of failed filesets
    pc,                  \* where the current conversion stands
    job,                 \* the locals of the current conversion
    verified             \* what verify_h5_file returned and logged, per file

vars == <<chunk_size, memory_usage, environ, psutil_available, virtual_memory,
          input_dir, output_dir, found, raised,
          bed_files, batch_mode, disk, idx, converted_files,
          failed_conversions, pc, job, verified>>

converter == <<chunk_size, memory_usage>>

host == <<environ, psutil_available, virtual_memory, bed_files, batch_mode,
          input_dir, output_dir, found, raised>>

batch == <<idx, converted_files, failed_conversions>>

NoCheck == [needs_chunking |-> FALSE, required |-> <<>>, available |-> <<>>,
            source |-> "none"]

NewJob(f, mode) ==
    [file |-> f, mode |-> mode, check |-> NoCheck, matrix |-> <<>>,
     chunk |-> 0, i |-> 0, ranges |-> <<>>, stage |-> ""]

NotVerified == [valid |-> FALSE, level |-> "", msg |-> "", key |-> ""]

Source == bed_files[job.file]

\* the exception logged and swallowed, the conversion carrying on
FailAndContinue(stage) ==
    /\ pc' = pc
    /\ job' = [job EXCEPT !.stage = stage]

\* the exception reaches `except Exception`, is logged and raised again
Fail(stage) ==
    /\ pc' = "Failed"
    /\ job' = [job EXCEPT !.stage = stage]

NoError == [type |-> "", message |-> ""]

\* the prefix of the f-th fileset of a batch: chr1, chr2, ...
Prefix(f) == <<"c", "h", "r", <<"1", "2", "3">>[f]>>

\* the converter is built and find_bed_files has returned the filesets
InitWith(modes, sizes, budgets, environs, hosts, filesets, olds) ==
    /\ batch_mode \in modes
    /\ chunk_size \in sizes
    /\ memory_usage \in budgets
    /\ environ \in environs
    /\ \E h \in hosts :
          /\ psutil_available = h.psutil
          /\ virtual_memory = h.vm
    /\ bed_files \in filesets
    /\ input_dir = [exists |-> TRUE,
                    files  |-> UNION {Fileset("", Prefix(f)) :
                                         f \in 1..Len(bed_files)}]
    /\ output_dir = [given |-> FALSE, exists |-> TRUE]
    /\ found = [f \in 1..Len(bed_files) |-> [dir |-> "", stem |-> Prefix(f)]]
    /\ raised = NoError
    /\ \E old \in olds : disk = [f \in 1..Len(bed_files) |-> old]
    /\ idx = 0
    /\ converted_files = <<>>
    /\ failed_conversions = <<>>
    /\ pc = "BatchLoop"
    /\ job = NewJob(0, "undetermined")
    /\ verified = [f \in 1..Len(bed_files) |-> NotVerified]

\* ------------------------------------------------------------------------
\* __init__ and the discovery of the filesets
\* ------------------------------------------------------------------------
\* __init__ creating the output directory before it looks at the input
\* directory
ConstructMkdirFirst ==
    /\ pc = "New"
    /\ output_dir' = [output_dir EXCEPT !.exists = TRUE]
    /\ IF ~input_dir.exists
       THEN /\ raised' = [type |-> "ValueError",
                          message |-> "Input directory does not exist"]
            /\ pc' = "InitError"
       ELSE /\ pc' = "Constructed"
            /\ UNCHANGED raised
    /\ UNCHANGED <<converter, environ, psutil_available, virtual_memory,
                   bed_files, batch_mode, input_dir, found, disk, batch, job,
                   verified>>

\* __init__: ValueError if the input directory does not exist, else
\* output_dir.mkdir(parents=True, exist_ok=True), which can fail
Construct ==
    /\ pc = "New"
    /\ IF ~input_dir.exists
       THEN /\ raised' = [type |-> "ValueError",
                          message |-> "Input directory does not exist"]
            /\ pc' = "InitError"
            /\ UNCHANGED output_dir
       ELSE \/ /\ output_dir' = [output_dir EXCEPT !.exists = TRUE]
               /\ pc' = "Constructed"
               /\ UNCHANGED raised
            \/ /\ ~output_dir.exists
               /\ raised' = [type |-> "OSError", message |-> "mkdir"]
               /\ pc' = "InitError"
               /\ UNCHANGED output_dir
    /\ UNCHANGED <<converter, environ, psutil_available, virtual_memory,
                   bed_files, batch_mode, input_dir, found, disk, batch, job,
                   verified>>

\* the dimensions the filesets of the discovery runs have
DiscoveredDims == [n_samples |-> 1, n_variants |-> BN(1)]

\* convert_all*: bed_files = self.find_bed_files(), in whatever order rglob
\* yields the files
Find ==
    /\ pc = "Constructed"
    /\ LET matching == find_bed_files(input_dir.files)
           n        == Cardinality(matching)
       IN  /\ \E order \in [1..n -> matching] :
                 /\ \A a, b \in 1..n : a # b => order[a] # order[b]
                 /\ found' = order
           /\ bed_files' = [f \in 1..n |-> DiscoveredDims]
           /\ disk' = [f \in 1..n |-> NoFile]
           /\ verified' = [f \in 1..n |-> NotVerified]
    /\ pc' = "BatchLoop"
    /\ UNCHANGED <<converter, environ, psutil_available, virtual_memory,
                   batch_mode, input_dir, output_dir, raised, batch, job>>

\* ------------------------------------------------------------------------
\* The batch loops: convert_all, convert_all_chunked, convert_all_auto
\* ------------------------------------------------------------------------
\* the loop probing the memory for every fileset, whatever the mode asked for
NextFileProbing ==
    /\ pc = "BatchLoop"
    /\ idx < Len(bed_files)
    /\ job' = NewJob(idx + 1, "undetermined")
    /\ pc' = "Planned"
    /\ UNCHANGED <<converter, host, disk, batch, verified>>

\* the loop giving every fileset the target budget of the default
NextFileResetting ==
    /\ pc = "BatchLoop"
    /\ idx < Len(bed_files)
    /\ job' = NewJob(idx + 1,
                     IF batch_mode = "auto" THEN "undetermined" ELSE batch_mode)
    /\ pc' = IF batch_mode = "auto" THEN "Planned" ELSE "ModeSelected"
    /\ memory_usage' = GB(20)
    /\ UNCHANGED <<chunk_size, host, disk, batch, verified>>

\* the loop takes the next fileset; an explicit mode is used as given
NextFile ==
    /\ pc = "BatchLoop"
    /\ idx < Len(bed_files)
    /\ job' = NewJob(idx + 1,
                     IF batch_mode = "auto" THEN "undetermined" ELSE batch_mode)
    /\ pc' = IF batch_mode = "auto" THEN "Planned" ELSE "ModeSelected"
    /\ UNCHANGED <<converter, host, disk, batch, verified>>

\* a failed conversion ending the loop
FinishAndStop ==
    /\ pc \in {"Completed", "Failed"}
    /\ IF pc = "Completed"
       THEN /\ converted_files' = Append(converted_files, job.file)
            /\ idx' = idx + 1
            /\ UNCHANGED failed_conversions
       ELSE /\ failed_conversions' = Append(failed_conversions, job.file)
            /\ idx' = Len(bed_files)
            /\ UNCHANGED converted_files
    /\ pc' = "BatchLoop"
    /\ UNCHANGED <<converter, host, disk, job, verified>>

\* the conversion returned a path, or raised and the loop caught it
Finish ==
    /\ pc \in {"Completed", "Failed"}
    /\ IF pc = "Completed"
       THEN /\ converted_files' = Append(converted_files, job.file)
            /\ UNCHANGED failed_conversions
       ELSE /\ failed_conversions' = Append(failed_conversions, job.file)
            /\ UNCHANGED converted_files
    /\ idx' = idx + 1
    /\ pc' = "BatchLoop"
    /\ UNCHANGED <<converter, host, disk, job, verified>>

BatchEnd ==
    /\ pc = "BatchLoop"
    /\ idx = Len(bed_files)
    /\ pc' = "Done"
    /\ UNCHANGED <<converter, host, disk, batch, job, verified>>

\* ------------------------------------------------------------------------
\* auto_determine_processing_mode
\* ------------------------------------------------------------------------
\* the probe letting an exception out to the conversion
ProbeRaising ==
    /\ pc = "Planned"
    /\ \E metadata_ok \in BOOLEAN :
          IF metadata_ok
          THEN /\ job' = [job EXCEPT !.check =
                              check_memory_requirements(environ, psutil_available,
                                  virtual_memory, Source.n_samples, Source.n_variants)]
               /\ pc' = "BudgetProbed"
          ELSE Fail("metadata")
    /\ UNCHANGED <<converter, host, disk, batch, verified>>

\* the dimensions are read and check_memory_requirements is called; any
\* exception makes the mode 'standard'
Probe ==
    /\ pc = "Planned"
    /\ \E metadata_ok \in BOOLEAN :
          IF metadata_ok
          THEN /\ job' = [job EXCEPT !.check =
                              check_memory_requirements(environ, psutil_available,
                                  virtual_memory, Source.n_samples, Source.n_variants)]
               /\ pc' = "BudgetProbed"
          ELSE /\ job' = [job EXCEPT !.mode = "standard"]
               /\ pc' = "ModeSelected"
    /\ UNCHANGED <<converter, host, disk, batch, verified>>

\* the selection going back to probe the budget again
SelectAndProbeAgain ==
    /\ pc = "BudgetProbed"
    /\ memory_usage' = adjusted_memory_usage(memory_usage, job.check)
    /\ job' = [job EXCEPT !.mode =
                  IF job.check.needs_chunking THEN "chunked" ELSE "standard"]
    /\ pc' = "Planned"
    /\ UNCHANGED <<chunk_size, host, disk, batch, verified>>

\* the decision made without lowering the target
SelectKeepingTarget ==
    /\ pc = "BudgetProbed"
    /\ job' = [job EXCEPT !.mode =
                  IF job.check.needs_chunking THEN "chunked" ELSE "standard"]
    /\ pc' = "ModeSelected"
    /\ UNCHANGED <<converter, host, disk, batch, verified>>

\* the decision: chunked if chunking is needed, with the target lowered
Select ==
    /\ pc = "BudgetProbed"
    /\ memory_usage' = adjusted_memory_usage(memory_usage, job.check)
    /\ job' = [job EXCEPT !.mode =
                  IF job.check.needs_chunking THEN "chunked" ELSE "standard"]
    /\ pc' = "ModeSelected"
    /\ UNCHANGED <<chunk_size, host, disk, batch, verified>>

\* ------------------------------------------------------------------------
\* convert_bed_to_h5
\* ------------------------------------------------------------------------
StandardRead ==
    /\ pc = "ModeSelected"
    /\ job.mode = "standard"
    /\ \E read_ok \in BOOLEAN :
          IF read_ok
          THEN /\ job' = [job EXCEPT !.matrix = ReadRows(0, Source.n_samples)]
               /\ pc' = "Writing"
          ELSE Fail("read")
    /\ UNCHANGED <<converter, host, disk, batch, verified>>

\* h5py.File(path, 'w') and create_dataset(data=genotype_matrix): the open can
\* fail, the creation can fail, and the write of the data can fail part-way
StandardWrite ==
    /\ pc = "Writing"
    /\ job.mode = "standard"
    /\ LET n == Len(job.matrix)
           v == Source.n_variants
       IN  \/ /\ disk' = [disk EXCEPT ![job.file] = Dataset(n, v, job.matrix)]
              /\ pc' = "Completed"
              /\ UNCHANGED job
           \/ /\ Fail("open")
              /\ UNCHANGED disk
           \/ /\ Fail("create")
              /\ disk' = [disk EXCEPT ![job.file] = EmptyH5]
           \/ \E k \in 0..(n - 1) :
                 /\ Fail("write")
                 /\ disk' = [disk EXCEPT ![job.file] =
                        Dataset(n, v, WriteRows([r \in 1..n |-> Fill], 0, k,
                                                job.matrix))]
    /\ UNCHANGED <<converter, host, batch, verified>>

\* ------------------------------------------------------------------------
\* convert_bed_to_h5_chunked
\* ------------------------------------------------------------------------
\* the dimensions are read and the chunk size is calculated
ChunkedPlan ==
    /\ pc = "ModeSelected"
    /\ job.mode = "chunked"
    /\ \E metadata_ok \in BOOLEAN :
          IF ~metadata_ok
          THEN Fail("metadata")
          ELSE LET plan == calculate_chunk_size(chunk_size, memory_usage,
                               Source.n_samples, Source.n_variants)
               IN  IF plan.ok
                   THEN /\ job' = [job EXCEPT !.chunk = plan.value]
                        /\ pc' = "ChunkPlanned"
                   ELSE Fail("plan")
    /\ UNCHANGED <<converter, host, disk, batch, verified>>

\* the file is opened for writing and the dataset created with its final
\* shape; range(0, n_samples, chunk_size) raises ValueError for a zero step
ChunkedCreate ==
    /\ pc = "ChunkPlanned"
    /\ LET n == Source.n_samples
           v == Source.n_variants
       IN  \/ /\ disk' = [disk EXCEPT ![job.file] =
                             Dataset(n, v, [r \in 1..n |-> Fill])]
              /\ IF job.chunk = 0
                 THEN Fail("range")
                 ELSE /\ pc' = "Writing"
                      /\ job' = [job EXCEPT !.i = 0]
           \/ /\ Fail("open")
              /\ UNCHANGED disk
           \/ /\ Fail("create")
              /\ disk' = [disk EXCEPT ![job.file] = EmptyH5]
    /\ UNCHANGED <<converter, host, batch, verified>>

\* a range that includes its stop value
InRangeInclusive(i, n_samples, step) == step > 0 /\ i <= n_samples

\* whether range(0, n_samples, chunk_size) has a value at i
InRange(i, n_samples, step) == step > 0 /\ i < n_samples

\* the number of chunks the writer logs after the loop
reported_chunks(n_samples, chunk) == (n_samples + chunk - 1) \div chunk

\* one pass of the loop: read rows [i, end_idx), write them at [i, end_idx)
ProcessChunk ==
    /\ pc = "Writing"
    /\ job.mode = "chunked"
    /\ InRange(job.i, Source.n_samples, job.chunk)
    /\ LET i          == job.i
           end_idx    == Min(i + job.chunk, Source.n_samples)
           chunk_data == ReadRows(i, end_idx)
           dset       == disk[job.file]
       IN  \/ /\ disk' = [disk EXCEPT ![job.file].rows =
                             WriteRows(dset.rows, i, end_idx, chunk_data)]
              /\ job' = [job EXCEPT
                            !.ranges = Append(@, [read  |-> <<i, end_idx>>,
                                                  write |-> <<i, end_idx>>]),
                            !.i = i + job.chunk]
              /\ UNCHANGED pc
           \/ /\ Fail("chunk_read")
              /\ UNCHANGED disk
           \/ \E k \in 0..(end_idx - i - 1) :
                 /\ Fail("chunk_write")
                 /\ disk' = [disk EXCEPT ![job.file].rows =
                                WriteRows(dset.rows, i, i + k, chunk_data)]
    /\ UNCHANGED <<converter, host, batch, verified>>

\* the range is exhausted: the file is closed and its path returned
ChunkedDone ==
    /\ pc = "Writing"
    /\ job.mode = "chunked"
    /\ ~InRange(job.i, Source.n_samples, job.chunk)
    /\ pc' = "Completed"
    /\ UNCHANGED <<converter, host, disk, batch, job, verified>>

\* ------------------------------------------------------------------------
\* Verification (main, after the batch or with --verify-only)
\* ------------------------------------------------------------------------
Verify(f) ==
    /\ pc = "Done"
    /\ verified[f] = NotVerified
    /\ verified' = [verified EXCEPT ![f] = verify_h5_file(disk[f])]
    /\ UNCHANGED <<converter, host, disk, batch, pc, job>>

\* ------------------------------------------------------------------------
\* Specifications
\* ------------------------------------------------------------------------
MaxSamples == 4

Modes == {"standard", "chunked", "auto"}

NoSlurm == [SLURM_MEM_PER_NODE |-> Unset, SLURM_MEM_PER_CPU |-> Unset,
            SLURM_CPUS_PER_TASK |-> Unset]

Raises == [raises |-> TRUE, available |-> <<>>]

Reports(bytes) == [raises |-> FALSE, available |-> bytes]

\* 2**28 variants make a row of 1 GiB, 2**30 variants a row of 4 GiB
Wide == BN(268435456)

VeryWide == BN(1073741824)

JobSizes == {None} \cup {Some(c) : c \in -1..(MaxSamples + 1)}

JobBudgets == {GB(2), GB(20)}

JobEnvirons == {NoSlurm, [NoSlurm EXCEPT !.SLURM_MEM_PER_NODE = EnvInt(8192)]}

JobHosts == {[psutil |-> FALSE, vm |-> Raises],
             [psutil |-> TRUE, vm |-> Raises],
             [psutil |-> TRUE, vm |-> Reports(GB(4))]}

JobFilesets ==
    {<<[n_samples |-> n, n_variants |-> v]>> :
        n \in 0..MaxSamples, v \in {<<>>, Wide, VeryWide}}

OldFiles == {NoFile, NotHdf5, OtherH5, StaleH5}

Init ==
    InitWith(Modes, JobSizes, JobBudgets, JobEnvirons, JobHosts, JobFilesets,
             OldFiles)

Next ==
    \/ NextFile
    \/ Probe
    \/ Select
    \/ StandardRead
    \/ StandardWrite
    \/ ChunkedPlan
    \/ ChunkedCreate
    \/ ProcessChunk
    \/ ChunkedDone
    \/ Finish
    \/ BatchEnd
    \/ \E f \in DOMAIN disk : Verify(f)

Spec == Init /\ [][Next]_vars

\* The same pipeline from fewer configurations, and running on as long as it
\* has a step to take: nothing in the program suspends it
LiveSizes == {None, Some(-1), Some(0), Some(1), Some(2)}

InitLive ==
    InitWith(Modes, LiveSizes, {GB(2)}, JobEnvirons,
             {[psutil |-> FALSE, vm |-> Raises],
              [psutil |-> TRUE, vm |-> Reports(GB(4))]},
             JobFilesets, {NoFile, StaleH5})

SpecLive == InitLive /\ [][Next]_vars /\ WF_vars(Next)

\* Chunk planning alone, on realistic dimensions: convert_all_chunked up to the
\* calculated chunk size
PlanSizes == {None, Some(-1), Some(0), Some(1), Some(5000), Some(2000000)}

PlanBudgets == {BNDiv(GiB, BN(2)), GB(2), GB(4), GB(8), GB(20), GB(1000)}

PlanSamples == {1, 10, 37, 4473, 4474, 50000, 1000000}

PlanVariants ==
    {BN(5), BN(19), BN(LargeVariantThreshold), BN(LargeVariantThreshold + 1),
     BN(600000), BN(1000000), BNMul(BN(3), BN(1000000000))}

PlanFilesets ==
    {<<[n_samples |-> n, n_variants |-> v]>> : n \in PlanSamples, v \in PlanVariants}

InitPlan ==
    InitWith({"chunked"}, PlanSizes, PlanBudgets, {NoSlurm},
             {[psutil |-> FALSE, vm |-> Raises]}, PlanFilesets, {NoFile})

NextPlan ==
    \/ NextFile
    \/ ChunkedPlan

SpecPlan == InitPlan /\ [][NextPlan]_vars

\* The probe and the mode decision alone, on realistic dimensions and budgets:
\* convert_all_auto up to the selected mode
SelectEnvirons ==
    {[SLURM_MEM_PER_NODE |-> node, SLURM_MEM_PER_CPU |-> cpu,
      SLURM_CPUS_PER_TASK |-> cpus] :
        node \in {Unset, EnvBad, EnvInt(8192), EnvInt(10240)},
        cpu  \in {Unset, EnvBad, EnvInt(1024), EnvInt(2048)},
        cpus \in {Unset, EnvBad, EnvInt(4)}}

SelectHosts == {[psutil |-> FALSE, vm |-> Raises],
                [psutil |-> FALSE, vm |-> Reports(GB(16))],
                [psutil |-> TRUE, vm |-> Raises],
                [psutil |-> TRUE, vm |-> Reports(GB(10))],
                [psutil |-> TRUE, vm |-> Reports(GB(16))]}

\* 262144 variants make a row of 1 MiB: 7168 rows are 7 GiB, 1024 rows 1 GiB
SelectFilesets ==
    {<<[n_samples |-> n, n_variants |-> BN(262144)]>> :
        n \in {10, 1024, 1025, 5734, 5735, 7168, 7169, 50000}}

InitSelect ==
    InitWith({"auto"}, {None}, {GB(2), GB(8)}, SelectEnvirons, SelectHosts,
             SelectFilesets, {NoFile})

NextSelect ==
    \/ NextFile
    \/ Probe
    \/ Select

SpecSelect == InitSelect /\ [][NextSelect]_vars

\* The constructor and the discovery alone, on directory trees of up to two
\* filesets, complete or not, temporary or not
DiscoverDirs == {"", "temporary"}

DiscoverStems ==
    {<<"c", "h", "r", "1">>,
     <<"t", "m", "p", "-">> \o Temporary,
     <<"T", "e", "m", "P", "O", "R", "A", "R", "Y">>,
     <<"t", "e", "m", "p", "o", "r", "a", "r">>}

DiscoverSuffixes ==
    SUBSET {BedSuffix, BimSuffix, FamSuffix}
    \cup {{<<".", "B", "E", "D">>, BimSuffix, FamSuffix}}

DiscoverPieces ==
    {{[dir |-> d, stem |-> s, suffix |-> x] : x \in xs} :
        d \in DiscoverDirs, s \in DiscoverStems, xs \in DiscoverSuffixes}

DiscoverTrees ==
    {[exists |-> FALSE, files |-> {}]}
    \cup {[exists |-> TRUE, files |-> a \cup b] :
             a \in DiscoverPieces, b \in DiscoverPieces}

InitDiscover ==
    /\ batch_mode = "auto"
    /\ chunk_size = None
    /\ memory_usage = GB(2)
    /\ environ = NoSlurm
    /\ psutil_available = FALSE
    /\ virtual_memory = Raises
    /\ input_dir \in DiscoverTrees
    /\ output_dir \in {[given |-> FALSE, exists |-> input_dir.exists],
                       [given |-> TRUE, exists |-> FALSE],
                       [given |-> TRUE, exists |-> TRUE]}
    /\ found = <<>>
    /\ raised = NoError
    /\ bed_files = <<>>
    /\ disk = <<>>
    /\ idx = 0
    /\ converted_files = <<>>
    /\ failed_conversions = <<>>
    /\ pc = "New"
    /\ job = NewJob(0, "undetermined")
    /\ verified = <<>>

NextDiscover ==
    \/ Construct
    \/ Find

SpecDiscover == InitDiscover /\ [][NextDiscover]_vars

\* A batch of up to two filesets converted by one converter, while the memory
\* the OS reports changes from one conversion to the next
BatchBudget == GB(8)

BatchMemory == {Raises, Reports(GB(4)), Reports(GB(16))}

BatchSources ==
    {[n_samples |-> n, n_variants |-> v] : n \in {1, 3}, v \in {Wide, VeryWide}}

BatchFilesets ==
    {<<>>} \cup {<<a>> : a \in BatchSources}
           \cup {<<a, b>> : a \in BatchSources, b \in BatchSources}

\* psutil.virtual_memory() reads what the OS has free at the time of the call:
\* between two conversions of a batch that has changed
HostMemory ==
    /\ pc = "BatchLoop"
    /\ 0 < idx
    /\ idx < Len(bed_files)
    /\ virtual_memory' \in BatchMemory \ {virtual_memory}
    /\ UNCHANGED <<converter, environ, psutil_available, bed_files, batch_mode,
                   input_dir, output_dir, found, raised, disk, batch, pc,
                   job, verified>>

InitBatch ==
    InitWith(Modes, {None, Some(2)}, {BatchBudget}, {NoSlurm},
             {[psutil |-> TRUE, vm |-> m] : m \in BatchMemory}, BatchFilesets,
             {NoFile})

NextBatch ==
    \/ NextFile
    \/ HostMemory
    \/ Probe
    \/ Select
    \/ StandardRead
    \/ StandardWrite
    \/ ChunkedPlan
    \/ ChunkedCreate
    \/ ProcessChunk
    \/ ChunkedDone
    \/ Finish
    \/ BatchEnd

SpecBatch == InitBatch /\ [][NextBatch]_vars

\* ------------------------------------------------------------------------
\* Properties
\* ------------------------------------------------------------------------
\* what convert_bed_to_h5 stores for a source: every row, at its own offset
WholeMatrix(source) ==
    Dataset(source.n_samples, source.n_variants, ReadRows(0, source.n_samples))

\* the bytes of c rows of n_variants genotypes of 4 bytes
ChunkBytes(c, n_variants) == BNMul(BN(c), BNMulSmall(n_variants, 4))

\* a source with rows and columns
Populated(source) == source.n_samples > 0 /\ source.n_variants # <<>>

TenGiB == BNMul(BN(10), BN(1073741824))

ManyVariants(source) == BNLess(BN(500000), source.n_variants)

HasKey(store) == store.kind = "hdf5" /\ "genotype_data" \in store.keys

\* C1: for the same source, a completed chunked conversion with a chunk size
\* between 1 and n_samples and a completed standard conversion leave the same
\* store: the whole matrix, row for row.
C1_ChunkedEqualsStandard ==
    (/\ pc = "Completed"
     /\ \/ job.mode = "standard"
        \/ /\ job.mode = "chunked"
           /\ 1 <= job.chunk
           /\ job.chunk <= Source.n_samples)
    => disk[job.file] = WholeMatrix(Source)

\* a chunked conversion of 3 rows in chunks of 2 (the last chunk clipped) has
\* completed
C1_Witness ==
    /\ pc = "Completed"
    /\ job.mode = "chunked"
    /\ Source.n_samples = 3
    /\ job.chunk = 2
    /\ Len(job.ranges) = 2
    /\ disk[job.file] = WholeMatrix(Source)

\* C2: when the chunked loop over a populated source has run to its end, the
\* ranges it read and wrote are each written where they were read, increase
\* without overlap, lie within [0, n_samples) and cover every row exactly once.
C2_RangesCoverOnce ==
    (pc = "Completed" /\ job.mode = "chunked" /\ Populated(Source))
    => LET R == job.ranges
           n == Source.n_samples
       IN  /\ \A k \in 1..Len(R) :
                 /\ R[k].read = R[k].write
                 /\ 0 <= R[k].write[1]
                 /\ R[k].write[1] < R[k].write[2]
                 /\ R[k].write[2] <= n
           /\ \A k \in 1..(Len(R) - 1) : R[k].write[2] <= R[k + 1].write[1]
           /\ \A r \in 0..(n - 1) :
                 Cardinality({k \in 1..Len(R) :
                     R[k].write[1] <= r /\ r < R[k].write[2]}) = 1

\* C3: a chunked conversion of a populated source that failed while reading or
\* writing a chunk leaves a destination that verify_h5_file does not report
\* valid.
C3_FailedChunkNotValid ==
    (/\ pc = "Failed"
     /\ job.stage \in {"chunk_read", "chunk_write"}
     /\ Populated(Source))
    => ~verify_h5_file(disk[job.file]).valid

\* C9: a verification reports valid exactly when the file holds the dataset
\* genotype_data, and for an HDF5 file without it the logged error names it.
C9_ValidIffKey ==
    \A f \in DOMAIN verified :
        verified[f] # NotVerified
        => /\ verified[f].valid <=> HasKey(disk[f])
           /\ (disk[f].kind = "hdf5" /\ ~HasKey(disk[f]))
              => /\ verified[f].level = "error"
                 /\ verified[f].msg = "Missing dataset"
                 /\ verified[f].key = "genotype_data"

\* an HDF5 file without the dataset has been verified and reported invalid
C9_Witness ==
    \E f \in DOMAIN verified :
        /\ verified[f] # NotVerified
        /\ disk[f].kind = "hdf5"
        /\ ~HasKey(disk[f])
        /\ ~verified[f].valid
        /\ verified[f].key = "genotype_data"

\* C10: a conversion of a populated source that the batch records as converted
\* has left every row of the matrix in its destination, and is not also
\* recorded as failed.
C10_SuccessHoldsEveryRow ==
    \A k \in 1..Len(converted_files) :
        LET f == converted_files[k]
        IN  Populated(bed_files[f])
            => /\ disk[f] = WholeMatrix(bed_files[f])
               /\ \A m \in 1..Len(failed_conversions) : failed_conversions[m] # f

\* C4: for n_samples > 0, n_variants > 0 and a positive target, the calculated
\* chunk size lies between 1 and n_samples.
C4_ChunkSizeInRange ==
    (/\ pc = "ChunkPlanned"
     /\ Source.n_samples > 0
     /\ Source.n_variants # <<>>
     /\ memory_usage # <<>>)
    => /\ 1 <= job.chunk
       /\ job.chunk <= Source.n_samples

C6_Original ==
    (/\ pc = "ChunkPlanned"
     /\ chunk_size = None
     /\ Source.n_samples > 0
     /\ Source.n_variants # <<>>
     /\ memory_usage # <<>>)
    => BNLeq(ChunkBytes(job.chunk, Source.n_variants), memory_usage)

\* C6 as amended: a chunk calculated from the target budget holds no more
\* bytes than the target, unless one row alone exceeds the target, and then
\* the chunk is that one row.
C6_WithinTargetOrOneRow ==
    (/\ pc = "ChunkPlanned"
     /\ chunk_size = None
     /\ Source.n_samples > 0
     /\ Source.n_variants # <<>>
     /\ memory_usage # <<>>)
    => \/ BNLeq(ChunkBytes(job.chunk, Source.n_variants), memory_usage)
       \/ /\ job.chunk = 1
          /\ BNLess(memory_usage, ChunkBytes(1, Source.n_variants))

\* a chunk of several rows, fewer than there are, that fills the target: one
\* more row would exceed it
C6_Witness ==
    /\ pc = "ChunkPlanned"
    /\ chunk_size = None
    /\ 1 < job.chunk
    /\ job.chunk < Source.n_samples
    /\ BNLeq(ChunkBytes(job.chunk, Source.n_variants), memory_usage)
    /\ BNLess(memory_usage, ChunkBytes(job.chunk + 1, Source.n_variants))

\* C7: with a budget from SLURM or from the OS, the selected mode is standard
\* when the bytes required are at most 0.7 of the bytes available, and chunked
\* when they are more.
C7_ModeBySafeBudget ==
    (/\ pc = "ModeSelected"
     /\ batch_mode = "auto"
     /\ job.check.source \in {"slurm", "os"})
    => LET required == ChunkBytes(Source.n_samples, Source.n_variants)
           fits     == BNLeq(BNMulSmall(required, 10),
                             BNMulSmall(job.check.available, 7))
       IN  job.mode = IF fits THEN "standard" ELSE "chunked"

\* a dataset of exactly 0.7 of the allocation (7 GiB of 10 GiB) is converted
\* in standard mode
C7_Witness ==
    /\ pc = "ModeSelected"
    /\ job.check.source = "slurm"
    /\ job.check.available = GB(10)
    /\ Source.n_samples = 7168
    /\ job.mode = "standard"

\* C8: the probed budget is the per-node allocation if it is set and parses;
\* else the per-CPU allocation times the CPU count if both are set and parse;
\* else the memory the OS reports available; else it is indeterminate.
C8_ProbePrecedence ==
    (pc = "BudgetProbed")
    => LET node == environ.SLURM_MEM_PER_NODE
           cpu  == environ.SLURM_MEM_PER_CPU
           cpus == environ.SLURM_CPUS_PER_TASK
           c    == job.check
       IN  IF node.present /\ node.parses
           THEN c.source = "slurm" /\ c.available = BNMul(BN(node.val), BN(1048576))
           ELSE IF cpu.present /\ cpu.parses /\ cpus.present /\ cpus.parses
           THEN /\ c.source = "slurm"
                /\ c.available = BNMul(BN(cpu.val * cpus.val), BN(1048576))
           ELSE IF psutil_available /\ ~virtual_memory.raises
           THEN c.source = "os" /\ c.available = virtual_memory.available
           ELSE c.source = "indeterminate"

\* both signals are set, 8192 MB per node and 1024 MB x 4 CPUs: the budget is
\* the 8 GiB of the node
C8_Witness ==
    /\ pc = "BudgetProbed"
    /\ environ.SLURM_MEM_PER_NODE = EnvInt(8192)
    /\ environ.SLURM_MEM_PER_CPU = EnvInt(1024)
    /\ environ.SLURM_CPUS_PER_TASK = EnvInt(4)
    /\ job.check.source = "slurm"
    /\ job.check.available = GB(8)

\* C11: no step of a conversion changes the target memory budget the caller
\* configured: self.memory_usage keeps the value the converter was built with.
C11_BudgetNeverChanged == [][memory_usage' = memory_usage]_vars

\* C12: a chunked conversion of a source with rows and without variants (the
\* chunk size calculated, or configured as a positive number) fails while the
\* dimensions are read or the chunk size is planned, before the destination is
\* opened: it never gets as far as a planned chunk size, a written file or a
\* success.
C12_NoVariantsRejected ==
    (/\ pc \in {"ChunkPlanned", "Writing", "Completed", "Failed"}
     /\ job.mode = "chunked"
     /\ chunk_size = None \/ chunk_size[1] >= 1
     /\ Source.n_samples > 0
     /\ Source.n_variants = <<>>)
    => /\ pc = "Failed"
       /\ job.stage \in {"metadata", "plan"}
       /\ disk[job.file] \in OldFiles

\* C13: once the read or the write of the chunk at row i has failed, the
\* conversion is over: the loop has not moved past i (no later chunk was read
\* or written, the failed one was not tried again), the rows of the earlier
\* chunks and the dataset itself are still in the destination, and the batch
\* loop that caught the error records the fileset as failed, not as converted.
C13_ChunkErrorAborts ==
    (job.stage \in {"chunk_read", "chunk_write"})
    => LET n    == Source.n_samples
           i    == job.i
           e    == Min(i + job.chunk, n)
           rows == disk[job.file].rows
       IN  /\ pc \in {"Failed", "BatchLoop", "Done"}
           /\ Len(job.ranges) * job.chunk = i
           /\ \A k \in 1..Len(job.ranges) : job.ranges[k].write[2] <= i
           /\ HasKey(disk[job.file])
           /\ Len(rows) = n
           /\ \A r \in 1..i : rows[r] = r
           /\ \A r \in (e + 1)..n : rows[r] = Fill
           /\ job.stage = "chunk_read" => \A r \in (i + 1)..n : rows[r] = Fill
           /\ pc # "Failed"
              => /\ \E m \in 1..Len(failed_conversions) :
                        failed_conversions[m] = job.file
                 /\ \A m \in 1..Len(converted_files) :
                        converted_files[m] # job.file

\* the write of the second of three one-row chunks failed after the first was
\* written; the batch has ended with the fileset recorded as failed
C13_Witness ==
    /\ pc = "Done"
    /\ job.stage = "chunk_write"
    /\ Source.n_samples = 3
    /\ job.chunk = 1
    /\ job.i = 1
    /\ disk[job.file].rows = <<1, Fill, Fill>>
    /\ failed_conversions = <<job.file>>

\* C14: when the probe found no budget (no usable SLURM variable, psutil
\* missing or raising), the selection that follows picks chunked when the
\* matrix needs more than 1.0 GB (2^30 bytes) and standard otherwise, and
\* leaves the target budget as it was handed to it.
C14_IndeterminateThreshold ==
    [][(pc = "BudgetProbed" /\ job.check.source = "indeterminate")
       => /\ job'.mode =
                IF BNLess(BN(1073741824),
                          ChunkBytes(Source.n_samples, Source.n_variants))
                THEN "chunked" ELSE "standard"
          /\ memory_usage' = memory_usage]_vars

\* with no budget, 1025 rows of 1 MiB (just above 1.0 GB) are converted in
\* chunks, with the 8 GB target untouched
C14_Witness ==
    /\ pc = "ModeSelected"
    /\ job.check.source = "indeterminate"
    /\ Source.n_samples = 1025
    /\ job.mode = "chunked"
    /\ memory_usage = GB(8)

\* C15: when the probe found a budget, a selection that picks chunked with a
\* positive available memory lowers the target budget to
\* min(target, available * 0.5), and a selection that picks standard leaves
\* the target budget as it was.
C15_TargetHalvedWhenChunked ==
    [][(pc = "BudgetProbed" /\ job.check.source \in {"slurm", "os"})
       => memory_usage' =
             IF job'.mode = "chunked" /\ job.check.available # <<>>
             THEN BNMin(memory_usage, BNDiv(job.check.available, BN(2)))
             ELSE memory_usage]_vars

\* 7169 rows of 1 MiB against the 8 GiB of the node: chunked, and the 8 GB
\* target has become 4 GB
C15_Witness ==
    /\ pc = "ModeSelected"
    /\ job.check.source = "slurm"
    /\ job.check.available = GB(8)
    /\ Source.n_samples = 7169
    /\ job.mode = "chunked"
    /\ memory_usage = GB(4)

\* floor(bytes / (n_variants * 4)): the whole rows that fit into bytes
RowsFitting(bytes, n_variants) == BNDiv(bytes, BNMulSmall(n_variants, 4))

\* min(max(1, floor(target / (n_variants * 4))), n_samples)
TargetRows(source) ==
    BNMin(BNMax(BN(1), RowsFitting(memory_usage, source.n_variants)),
          BN(source.n_samples))

NamedTemporary(name) ==
    \E k \in 0..(Len(name) - 9) :
        /\ name[k + 1] \in {"t", "T"}
        /\ name[k + 2] \in {"e", "E"}
        /\ name[k + 3] \in {"m", "M"}
        /\ name[k + 4] \in {"p", "P"}
        /\ name[k + 5] \in {"o", "O"}
        /\ name[k + 6] \in {"r", "R"}
        /\ name[k + 7] \in {"a", "A"}
        /\ name[k + 8] \in {"r", "R"}
        /\ name[k + 9] \in {"y", "Y"}

\* C17: once the discovery has run, the list it returned holds, each once,
\* exactly the .bed files of the tree whose name does not contain 'temporary'
\* in any case and whose .bim and .fam lie next to them.
C17_FoundExactlyComplete ==
    (pc \notin {"New", "Constructed", "InitError"})
    => /\ \A a, b \in 1..Len(found) : a # b => found[a] # found[b]
       /\ \A d \in DiscoverDirs, s \in DiscoverStems :
             LET file(x) == [dir |-> d, stem |-> s, suffix |-> x]
             IN  (\E k \in 1..Len(found) : found[k] = [dir |-> d, stem |-> s])
                 <=> /\ file(<<".", "b", "e", "d">>) \in input_dir.files
                     /\ ~NamedTemporary(s \o <<".", "b", "e", "d">>)
                     /\ file(<<".", "b", "i", "m">>) \in input_dir.files
                     /\ file(<<".", "f", "a", "m">>) \in input_dir.files
       /\ \A k \in 1..Len(found) :
             found[k].dir \in DiscoverDirs /\ found[k].stem \in DiscoverStems

\* a tree with a complete fileset chr1 in a directory named temporary and a
\* complete fileset named TemPORARY: the discovery returned the first alone
C17_Witness ==
    /\ pc = "BatchLoop"
    /\ input_dir.files =
          Fileset("temporary", <<"c", "h", "r", "1">>)
          \cup Fileset("", <<"T", "e", "m", "P", "O", "R", "A", "R", "Y">>)
    /\ found = <<[dir |-> "temporary", stem |-> <<"c", "h", "r", "1">>]>>

\* C18: building the converter on an input directory that does not exist
\* raises ValueError with the message 'does not exist' and leaves the output
\* directory as it was: not created.
C18_MissingInputRejected ==
    [][(pc = "New" /\ ~input_dir.exists)
       => /\ pc' = "InitError"
          /\ raised'.type = "ValueError"
          /\ raised'.message = "Input directory does not exist"
          /\ output_dir' = output_dir]_vars

\* the input directory is missing and an output directory was named that does
\* not exist: the constructor has raised and the output directory is still
\* missing
C18_Witness ==
    /\ pc = "InitError"
    /\ ~input_dir.exists
    /\ raised.type = "ValueError"
    /\ output_dir = [given |-> TRUE, exists |-> FALSE]

\* the chunked conversion has created its dataset and entered its loop
InChunkLoop ==
    /\ job.mode = "chunked"
    /\ \/ pc \in {"Writing", "Completed"}
       \/ job.stage \in {"chunk_read", "chunk_write"}
       \/ /\ pc \in {"BatchLoop", "Done"}
          /\ \E m \in 1..Len(converted_files) : converted_files[m] = job.file

\* C19: from the moment the chunked loop is entered, before any chunk is read,
\* the destination holds genotype_data with the shape (n_samples, n_variants),
\* and keeps that shape; the chunks are taken at start rows 0, chunk_size,
\* 2 * chunk_size, ... in that order, each written where it was read; and when
\* the read of a chunk is about to begin, every earlier chunk is in the
\* destination in full and no later row has been written.
C19_ShapedThenAscending ==
    InChunkLoop
    => LET n    == Source.n_samples
           R    == job.ranges
           dset == disk[job.file]
       IN  /\ HasKey(dset)
           /\ dset.shape = <<n, Source.n_variants>>
           /\ Len(dset.rows) = n
           /\ \A k \in 1..Len(R) :
                 /\ R[k].read[1] = (k - 1) * job.chunk
                 /\ R[k].write = R[k].read
           /\ \A k \in 1..(Len(R) - 1) : R[k].read[1] < R[k + 1].read[1]
           /\ pc = "Writing"
              => /\ job.i = Len(R) * job.chunk
                 /\ \A r \in 1..n :
                       dset.rows[r] = IF r <= job.i THEN r ELSE Fill

\* two of three one-row chunks are done, the third is about to be read
C19_Witness ==
    /\ pc = "Writing"
    /\ job.mode = "chunked"
    /\ Source.n_samples = 3
    /\ job.chunk = 1
    /\ job.ranges = <<[read |-> <<0, 1>>, write |-> <<0, 1>>],
                      [read |-> <<1, 2>>, write |-> <<1, 2>>]>>
    /\ disk[job.file].rows = <<1, 2, Fill>>
    /\ disk[job.file].shape = <<3, Source.n_variants>>

\* the state of the job the batch loop is at, or was at last: the loop's own
\* positions show the outcome the job ended with, and the planning of the
\* chunk size belongs to ModeSelected
JobState ==
    IF pc \in {"BatchLoop", "Done"}
    THEN IF job.file = 0
         THEN "None"
         ELSE IF \E m \in 1..Len(failed_conversions) :
                    failed_conversions[m] = job.file
         THEN "Failed"
         ELSE "Completed"
    ELSE IF pc = "ChunkPlanned"
    THEN "ModeSelected"
    ELSE pc

JobRank(state) ==
    CASE state = "None"         -> 0
      [] state = "Planned"      -> 1
      [] state = "BudgetProbed" -> 2
      [] state = "ModeSelected" -> 3
      [] state = "Writing"      -> 4
      [] state = "Completed"    -> 5
      [] state = "Failed"       -> 5

\* C20: whenever a job changes state it moves to a later state of
\* Planned, BudgetProbed, ModeSelected, Writing, {Completed | Failed}: it never
\* goes back to a state, never leaves Failed (or Completed) for another state,
\* and every job that was started ends in Completed or Failed.
C20_ForwardToTerminal ==
    /\ [][(job'.file = job.file /\ JobState' # JobState)
          => JobRank(JobState) < JobRank(JobState')]_vars
    /\ (job.file # 0) ~> (JobState \in {"Completed", "Failed"})

\* an automatic job went through the probe and the selection into a chunked
\* write of more than one chunk and completed
C20_Witness ==
    /\ pc = "Completed"
    /\ batch_mode = "auto"
    /\ job.check.source = "slurm"
    /\ job.mode = "chunked"
    /\ Len(job.ranges) > 1

\* C21: a chunked conversion of a source without rows (calculated chunk size 0)
\* is rejected while planning: it never gets as far as a planned chunk size,
\* and the destination is still what it was before the conversion.
C21_ZeroRowsRejectedAtPlanning ==
    (/\ job.file # 0
     /\ job.mode = "chunked"
     /\ chunk_size = None
     /\ Source.n_samples = 0
     /\ Source.n_variants # <<>>)
    => /\ pc \notin {"ChunkPlanned", "Writing", "Completed"}
       /\ disk[job.file] \in OldFiles

\* the least number of chunks of c rows that hold n rows: ceil(n / c)
CeilDiv(n, c) == CHOOSE k \in 0..n : k * c >= n /\ (k = 0 \/ (k - 1) * c < n)

\* C23: a chunked conversion of n_samples > 0 rows with a chunk size of at
\* least 1 that has run to its end has made exactly ceil(n_samples / chunk_size)
\* passes of the loop, which is the number of chunks the writer reports.
C23_IterationsAreCeiling ==
    (/\ pc = "Completed"
     /\ job.mode = "chunked"
     /\ Source.n_samples > 0
     /\ job.chunk >= 1)
    => /\ Len(job.ranges) = CeilDiv(Source.n_samples, job.chunk)
       /\ Len(job.ranges) = reported_chunks(Source.n_samples, job.chunk)
       /\ ~InRange(job.i, Source.n_samples, job.chunk)

\* 4 rows in chunks of 2 (the chunk size divides the rows) and the loop has
\* ended after 2 passes
C23_Witness ==
    /\ pc = "Completed"
    /\ job.mode = "chunked"
    /\ Source.n_samples = 4
    /\ job.chunk = 2
    /\ Len(job.ranges) = 2
    /\ reported_chunks(4, 2) = 2

\* C29: with an explicit chunk size the planned chunk size is
\* min(chunk_size, n_samples), whatever the target budget and however many
\* variants the source has: neither the budget nor the 10 GiB cap lowers it.
C29_ExplicitSizeOnlyClipped ==
    (pc = "ChunkPlanned" /\ chunk_size # None)
    => job.chunk = Min(chunk_size[1], Source.n_samples)

\* 5000 rows of 600,000 variants are 12 GB, above the 10 GiB cap and above
\* the target of half a GiB, and are the chunk all the same
C29_Witness ==
    /\ pc = "ChunkPlanned"
    /\ chunk_size = Some(5000)
    /\ Source.n_samples = 50000
    /\ Source.n_variants = BN(600000)
    /\ memory_usage = BNDiv(GiB, BN(2))
    /\ job.chunk = 5000
    /\ BNLess(TenGiB, ChunkBytes(job.chunk, Source.n_variants))

\* an environment variable that is set to something int() does not parse
Unparseable(v) == v.present /\ ~v.parses

\* an environment variable that is set to an integer
Parsed(v) == v.present /\ v.parses

\* C30: once the budget is probed, an unparseable SLURM_MEM_PER_NODE has been
\* passed over for SLURM_MEM_PER_CPU x SLURM_CPUS_PER_TASK when both parse; an
\* unparseable SLURM_MEM_PER_CPU or SLURM_CPUS_PER_TASK (with no usable
\* per-node value) has left no scheduler budget, so the budget is the OS's
\* available memory if psutil reports it and indeterminate otherwise; and no
\* probe has failed.
C30_UnparseableSkipped ==
    /\ pc # "Failed"
    /\ pc = "BudgetProbed" =>
         LET node == environ.SLURM_MEM_PER_NODE
             cpu  == environ.SLURM_MEM_PER_CPU
             cpus == environ.SLURM_CPUS_PER_TASK
         IN  /\ (Unparseable(node) /\ Parsed(cpu) /\ Parsed(cpus))
                => /\ job.check.source = "slurm"
                   /\ job.check.available = BNMul(BN(cpu.val * cpus.val), MiB)
             /\ (~Parsed(node) /\ (Unparseable(cpu) \/ Unparseable(cpus)))
                => IF psutil_available /\ ~virtual_memory.raises
                   THEN /\ job.check.source = "os"
                        /\ job.check.available = virtual_memory.available
                   ELSE /\ job.check.source = "indeterminate"
                        /\ job.check.available = <<>>

\* an unparseable per-node value with 2048 MB per CPU on 4 CPUs: 8 GiB from
\* the scheduler
C30_Witness ==
    /\ pc = "BudgetProbed"
    /\ Unparseable(environ.SLURM_MEM_PER_NODE)
    /\ environ.SLURM_MEM_PER_CPU = EnvInt(2048)
    /\ environ.SLURM_CPUS_PER_TASK = EnvInt(4)
    /\ job.check.source = "slurm"
    /\ job.check.available = GB(8)

\* C28: the automatic choice of the mode always yields a mode: each of its
\* steps goes on to the next, none fails the conversion; and when an exception
\* cuts the probe short the mode is 'standard' and memory_usage is what it
\* was, for a source of any size.
C28_SelectionNeverRaises ==
    [][/\ pc = "Planned"
          => /\ pc' \in {"BudgetProbed", "ModeSelected"}
             /\ memory_usage' = memory_usage
             /\ pc' = "ModeSelected"
                => /\ job'.mode = "standard"
                   /\ job'.check = NoCheck
       /\ pc = "BudgetProbed"
          => /\ pc' = "ModeSelected"
             /\ job'.mode \in {"standard", "chunked"}]_vars

\* the dimensions of 50,000 rows of 1 MiB could not be read: the mode is
\* 'standard' and the target still 8 GB
C28_Witness ==
    /\ pc = "ModeSelected"
    /\ job.check = NoCheck
    /\ job.mode = "standard"
    /\ Source.n_samples = 50000
    /\ memory_usage = GB(8)

\* bytes are no more than 0.7 of the available memory
WithinSafe(bytes, available) ==
    BNLeq(BNMulSmall(bytes, 10), BNMulSmall(available, 7))

\* an automatic conversion whose probe found a positive budget, with no
\* explicit chunk size, holding rows in memory
AutoHoldingRows ==
    /\ batch_mode = "auto"
    /\ chunk_size = None
    /\ pc = "Writing"
    /\ job.check.source \in {"slurm", "os"}
    /\ job.check.available # <<>>

\* the bytes of the rows in memory: the matrix read by the standard writer, or
\* one chunk of the chunked writer
Materialized ==
    IF job.mode = "standard"
    THEN ChunkBytes(Len(job.matrix), Source.n_variants)
    ELSE ChunkBytes(Min(job.chunk, Source.n_samples), Source.n_variants)

\* C26 as stated: the rows in memory never take more than 0.7 of the
\* available memory.
C26_Original ==
    AutoHoldingRows => WithinSafe(Materialized, job.check.available)

\* C26: the rows in memory take no more than 0.7 of the available memory,
\* unless the chunk is the single row the planner never goes below and that
\* row alone is larger than the target budget.
C26_WithinSafeOrOneRow ==
    AutoHoldingRows
    => \/ WithinSafe(Materialized, job.check.available)
       \/ /\ job.mode = "chunked"
          /\ job.chunk = 1
          /\ BNLess(memory_usage, ChunkBytes(1, Source.n_variants))

\* 3 rows of 1 GiB against 4 GiB available: chunked, the target lowered from
\* 20 GB to 2 GiB, chunks of 2 rows
C26_Witness ==
    /\ AutoHoldingRows
    /\ job.mode = "chunked"
    /\ job.check.available = GB(4)
    /\ Source.n_samples = 3
    /\ Source.n_variants = Wide
    /\ memory_usage = GB(2)
    /\ job.chunk = 2
    /\ job.i = 2
    /\ WithinSafe(Materialized, job.check.available)

\* C22: in a batch with an explicit mode (convert_all, convert_all_chunked)
\* every fileset is converted in that mode, no step probes the memory, and no
\* step changes memory_usage.
C22_ExplicitModeAsGiven ==
    [][(batch_mode \in {"standard", "chunked"})
       => (/\ memory_usage' = memory_usage
           /\ job'.check = NoCheck
           /\ pc' \notin {"Planned", "BudgetProbed"}
           /\ (job'.file # 0 => job'.mode = batch_mode))]_vars

\* the second fileset of convert_all, 3 rows of 4 GiB with 4 GiB available,
\* is being written whole, the target still 8 GB
C22_Witness ==
    /\ batch_mode = "standard"
    /\ job.file = 2
    /\ pc = "Writing"
    /\ job.mode = "standard"
    /\ Source = [n_samples |-> 3, n_variants |-> VeryWide]
    /\ virtual_memory = Reports(GB(4))
    /\ Len(job.matrix) = 3
    /\ memory_usage = BatchBudget

\* a sequence of file numbers in increasing order
Ascending(s) == \A a, b \in DOMAIN s : a < b => s[a] < s[b]

\* the file numbers in a sequence
Range(s) == {s[a] : a \in DOMAIN s}

\* the batch has dealt with the first idx filesets, each of them once: the
\* converted and the failed ones are each in discovery order, no fileset is in
\* both, together they are the filesets 1..idx, and a conversion under way is
\* that of fileset idx + 1
AttemptedOnceInOrder ==
    /\ Ascending(converted_files)
    /\ Ascending(failed_conversions)
    /\ Range(converted_files) \cap Range(failed_conversions) = {}
    /\ Range(converted_files) \cup Range(failed_conversions) = 1..idx
    /\ Len(converted_files) + Len(failed_conversions) = idx
    /\ pc \notin {"BatchLoop", "Done"} => job.file = idx + 1
    /\ pc = "Done" => idx = Len(bed_files)

\* C27: a batch attempts every discovered fileset once, in discovery order,
\* whether or not earlier ones failed; a conversion that completed adds its
\* file to the end of the returned list and nothing else does; a conversion
\* that failed adds its file to the failures; so at the end the returned list
\* and the failures together count the discovered filesets.
C27_EveryFileOnceInOrder ==
    /\ []AttemptedOnceInOrder
    /\ [][/\ pc = "Completed"
             => /\ converted_files' = Append(converted_files, job.file)
                /\ failed_conversions' = failed_conversions
          /\ pc = "Failed"
             => /\ failed_conversions' = Append(failed_conversions, job.file)
                /\ converted_files' = converted_files
          /\ pc \notin {"Completed", "Failed"}
             => /\ converted_files' = converted_files
                /\ failed_conversions' = failed_conversions]_vars

\* the first of two filesets failed, the second was converted, and the batch
\* has returned the second alone
C27_Witness ==
    /\ pc = "Done"
    /\ Len(bed_files) = 2
    /\ failed_conversions = <<1>>
    /\ converted_files = <<2>>
    /\ disk[2] = WholeMatrix(bed_files[2])
    /\ disk[1] # WholeMatrix(bed_files[1])

\* C25: no step of a batch of automatic conversions raises memory_usage or
\* puts it back: a step either leaves it as it is or is the mode decision of
\* a conversion that needs chunking under a known budget, which lowers it to
\* min(memory_usage, available / 2); so it is never above the configured
\* value, and a later fileset is planned under the value an earlier one left.
C25_TargetOnlyLowered ==
    /\ [](BNLeq(memory_usage, BatchBudget))
    /\ [][\/ memory_usage' = memory_usage
          \/ /\ pc = "BudgetProbed"
             /\ job.check.needs_chunking
             /\ job.check.available # <<>>
             /\ memory_usage' = BNMin(memory_usage,
                                      BNDiv(job.check.available, BN(2)))
             /\ BNLess(memory_usage', memory_usage)]_vars

\* the first fileset lowered the target from 8 GB to 2 GiB under 4 GiB of
\* available memory; the second, probed under 16 GiB, is planned with the
\* target still at 2 GiB
C25_Witness ==
    /\ batch_mode = "auto"
    /\ job.file = 2
    /\ pc = "ChunkPlanned"
    /\ job.check.source = "os"
    /\ job.check.available = GB(16)
    /\ memory_usage = GB(2)

\* the chunk size a conversion plans when it is the only one its converter
\* runs: from the configured target, lowered by its own probe alone
PlanWhenAlone ==
    calculate_chunk_size(chunk_size,
                         adjusted_memory_usage(BatchBudget, job.check),
                         Source.n_samples, Source.n_variants).value

\* C24: an automatic conversion plans the chunk size it would plan if it ran
\* alone, whatever the conversions of other filesets that came before it on
\* the same converter.
C24_PlanAsWhenAlone ==
    (batch_mode = "auto" /\ pc = "ChunkPlanned") => job.chunk = PlanWhenAlone

====
